---- MODULE Spec2Model ----
(***************************************************************************)
(* Patient Management System (Mini_Projects/patient_management_api.py).    *)
(*                                                                         *)
(* The state is the JSON data file and the last request and response.      *)
(* Each request handler is one action: the request-body validation that    *)
(* FastAPI runs before the handler, then load_data, the checks, the change *)
(* and save_data.                                                          *)
(*                                                                         *)
(* Numbers.  height and weight are Python floats and bmi is round(.., 2).  *)
(* They are kept here as fixed-point integers: height in hundredths of a   *)
(* metre, weight in tenths of a kilogram, bmi in hundredths.  The heights  *)
(* used (2.00 and 1.50) and their squares are exact binary floats, and for *)
(* the weights used round(weight / height ** 2, 2) is the decimal that the *)
(* integer arithmetic gives (18.125 is exact and rounds to the even 18.12).*)
(*                                                                         *)
(* JSON values.  A value that may be null is an option: <<>> is None and   *)
(* <<v>> is the value v.  A JSON object or keyword dict is a function from *)
(* its keys to options.  The patient collection is an insertion-ordered    *)
(* dict: a sequence of <<id, record>> pairs.                               *)
(***************************************************************************)
EXTENDS Integers, Sequences, FiniteSets, TLC

VARIABLES
    file,   \* DATA_FILE: [exists, content]
    req,    \* the request handled last: [op, id, body]
    resp,   \* its response: [status, body]
    prev,   \* history: [op, id, status] of the request before it
    nops,   \* number of requests handled so far
    calls,  \* requests in progress at the same time: for each worker
            \* [at, req, data, resp], data being the handler's local dict
    log     \* the calls of load_data and save_data so far: <<worker, call>>

vars == <<file, req, resp, prev, nops, calls, log>>

\* Number of requests in a run.
MaxOps == 3

-----------------------------------------------------------------------------
(* Options and dicts *)

None == <<>>
Some(v) == <<v>>
Val(o) == o[1]

\* The keyword dict d with d[k] = o.
With(d, k, o) == [x \in DOMAIN d \cup {k} |-> IF x = k THEN o ELSE d[x]]

\* The keyword dict d without the key k.
Without(d, k) == [x \in DOMAIN d \ {k} |-> d[x]]

\* Insertion-ordered dict of patients: a sequence of <<id, record>> pairs.
EmptyDict == <<>>

Keys(data) == {data[i][1] : i \in DOMAIN data}

KeyList(data) == [i \in DOMAIN data |-> data[i][1]]

\* data[k], for k in data
Get(data, k) == data[CHOOSE i \in DOMAIN data : data[i][1] = k][2]

\* data[k] = v: an existing key keeps its position, a new key goes last
DictSet(data, k, v) ==
    IF k \in Keys(data)
    THEN [i \in DOMAIN data |-> IF data[i][1] = k THEN <<k, v>> ELSE data[i]]
    ELSE Append(data, <<k, v>>)

\* del data[k]
DictDel(data, k) == SelectSeq(data, LAMBDA e : e[1] # k)

-----------------------------------------------------------------------------
(* The data file *)

load_data(f) == IF ~f.exists THEN EmptyDict ELSE f.content

save_data(data) == [exists |-> TRUE, content |-> data]

-----------------------------------------------------------------------------
(* Patient *)

Genders == {"male", "female", "others"}

Fields == {"name", "city", "age", "gender", "height", "weight"}

PatientKeys == {"id"} \cup Fields

\* Variant: the upper bound of age left out.
AgeOk_NoUpperBound(a) == a > 0

AgeOk(a) == a > 0 /\ a < 120
GenderOk(g) == g \in Genders
HeightOk(h) == h > 0
WeightOk(w) == w > 0

\* Patient(**d) validates: every field is required and not None, and each
\* meets its constraint.  Keys that are no field (bmi, verdict) are ignored.
PatientValid(d) ==
    /\ PatientKeys \subseteq DOMAIN d
    /\ \A k \in PatientKeys : d[k] # None
    /\ AgeOk(Val(d["age"]))
    /\ GenderOk(Val(d["gender"]))
    /\ HeightOk(Val(d["height"]))
    /\ WeightOk(Val(d["weight"]))

\* The model object built from a valid d.
Patient(d) == [k \in PatientKeys |-> Val(d[k])]

\* round(x, 2) of the quotient num / den, in hundredths: Python rounds the
\* exact half to the even neighbour.
RoundHalfEven(num, den) ==
    LET q == num \div den
        r == num % den
    IN  IF 2 * r < den THEN q
        ELSE IF 2 * r > den THEN q + 1
        ELSE IF q % 2 = 0 THEN q ELSE q + 1

\* round(weight / height ** 2, 2), in hundredths (weight in tenths of a kg,
\* height in hundredths of a metre).
bmi(height, weight) == RoundHalfEven(weight * 100000, height * height)

\* Variant: the thresholds taken as inclusive upper limits.
verdict_inclusive(b) ==
    IF b <= 1850 THEN "Underweight"
    ELSE IF b <= 2500 THEN "Normal"
    ELSE IF b <= 3000 THEN "Overweight"
    ELSE "Obese"

\* Variant: 30 itself still counted as Overweight.
verdict_obese_above(b) ==
    IF b < 1850 THEN "Underweight"
    ELSE IF b < 2500 THEN "Normal"
    ELSE IF b <= 3000 THEN "Overweight"
    ELSE "Obese"

verdict(b) ==
    IF b < 1850 THEN "Underweight"
    ELSE IF b < 2500 THEN "Normal"
    ELSE IF b < 3000 THEN "Overweight"
    ELSE "Obese"

\* patient.model_dump(exclude=["id"]): the fields and the computed fields.
model_dump(p) ==
    LET b == bmi(p["height"], p["weight"])
    IN  [name |-> p["name"], city |-> p["city"], age |-> p["age"],
         gender |-> p["gender"], height |-> p["height"], weight |-> p["weight"],
         bmi |-> b, verdict |-> verdict(b)]

-----------------------------------------------------------------------------
(* PatientUpdate *)

\* Every field is Optional with default None; age, height and weight must be
\* > 0 when given a value.  age has no upper bound here.
PatientUpdateValid(u) ==
    /\ ("age" \in DOMAIN u /\ u["age"] # None) => Val(u["age"]) > 0
    /\ ("gender" \in DOMAIN u /\ u["gender"] # None) => GenderOk(Val(u["gender"]))
    /\ ("height" \in DOMAIN u /\ u["height"] # None) => Val(u["height"]) > 0
    /\ ("weight" \in DOMAIN u /\ u["weight"] # None) => Val(u["weight"]) > 0

\* The model object: the value of every field and the set of fields given.
PatientUpdate(u) ==
    [vals |-> [k \in Fields |-> IF k \in DOMAIN u THEN u[k] ELSE None],
     fields_set |-> DOMAIN u \cap Fields]

\* updates.model_dump(exclude_unset=True)
dump_exclude_unset(pu) == [k \in pu.fields_set |-> pu.vals[k]]

-----------------------------------------------------------------------------
(* Responses *)

Ok(status, body) == [status |-> status, body |-> body]

HTTPException(status, detail) == [status |-> status, body |-> [detail |-> detail]]

\* FastAPI rejects a request whose body fails the parameter's model.
RequestValidationError == [status |-> 422, body |-> [detail |-> "validation error"]]

\* An exception the handler does not catch and that is no HTTPException.
UnhandledError == [status |-> 500, body |-> [detail |-> "Internal Server Error"]]

Result(f, r) == [file |-> f, resp |-> r]

-----------------------------------------------------------------------------
(* Handlers: the file and the response after a request on file f *)

get_all_patients(f) == Result(f, Ok(200, load_data(f)))

\* Variant: the record returned is the first of the collection.
get_patient_first(f, patient_id) ==
    LET data == load_data(f)
    IN  IF patient_id \notin Keys(data)
        THEN Result(f, HTTPException(404, "Patient not found"))
        ELSE Result(f, Ok(200, data[1][2]))

get_patient(f, patient_id) ==
    LET data == load_data(f)
    IN  IF patient_id \notin Keys(data)
        THEN Result(f, HTTPException(404, "Patient not found"))
        ELSE Result(f, Ok(200, Get(data, patient_id)))

\* Variant: no check that the id is new.
create_patient_overwrite(f, body) ==
    IF ~PatientValid(body) THEN Result(f, RequestValidationError)
    ELSE
        LET patient == Patient(body)
            data == load_data(f)
        IN  Result(save_data(DictSet(data, patient["id"], model_dump(patient))),
                   Ok(201, [message |-> "Patient created successfully"]))

create_patient(f, body) ==
    IF ~PatientValid(body) THEN Result(f, RequestValidationError)
    ELSE
        LET patient == Patient(body)
            data == load_data(f)
        IN  IF patient["id"] \in Keys(data)
            THEN Result(f, HTTPException(400, "Patient already exists"))
            ELSE Result(save_data(DictSet(data, patient["id"], model_dump(patient))),
                        Ok(201, [message |-> "Patient created successfully"]))

\* Variant: the lookup done before the id comparison.
replace_patient_lookup_first(f, patient_id, body) ==
    IF ~PatientValid(body) THEN Result(f, RequestValidationError)
    ELSE
        LET patient == Patient(body)
            data == load_data(f)
        IN  IF patient_id \notin Keys(data)
            THEN Result(f, HTTPException(404, "Patient not found"))
            ELSE IF patient_id # patient["id"]
            THEN Result(f, HTTPException(400, "Patient ID mismatch"))
            ELSE Result(save_data(DictSet(data, patient_id, model_dump(patient))),
                        Ok(200, [message |-> "Patient replaced successfully"]))

replace_patient(f, patient_id, body) ==
    IF ~PatientValid(body) THEN Result(f, RequestValidationError)
    ELSE
        LET patient == Patient(body)
            data == load_data(f)
        IN  IF patient_id # patient["id"]
            THEN Result(f, HTTPException(400, "Patient ID mismatch"))
            ELSE IF patient_id \notin Keys(data)
            THEN Result(f, HTTPException(404, "Patient not found"))
            ELSE Result(save_data(DictSet(data, patient_id, model_dump(patient))),
                        Ok(200, [message |-> "Patient replaced successfully"]))

\* Variant: the loop writes to a copy, so the stored values reach Patient.
merged_on_copy(stored, items, patient_id) ==
    [k \in DOMAIN stored \cup {"id"} |->
        IF k = "id" THEN Some(patient_id) ELSE Some(stored[k])]

\* data[patient_id] after the loop "data[patient_id][key] = value", as the
\* keyword arguments of Patient(id=patient_id, **data[patient_id]).
merged(stored, items, patient_id) ==
    [k \in DOMAIN stored \cup DOMAIN items \cup {"id"} |->
        IF k = "id" THEN Some(patient_id)
        ELSE IF k \in DOMAIN items THEN items[k]
        ELSE Some(stored[k])]

\* The values the loop leaves in data[patient_id] (a None is passed over).
written(stored, items) ==
    [k \in DOMAIN stored |->
        IF k \in DOMAIN items /\ items[k] # None THEN Val(items[k]) ELSE stored[k]]

\* Variant: save_data called before the merged record is validated.
update_patient_save_first(f, patient_id, u) ==
    IF ~PatientUpdateValid(u) THEN Result(f, RequestValidationError)
    ELSE
        LET updates == PatientUpdate(u)
            data == load_data(f)
        IN  IF patient_id \notin Keys(data)
            THEN Result(f, HTTPException(404, "Patient not found"))
            ELSE
                LET items == dump_exclude_unset(updates)
                    kwargs == merged(Get(data, patient_id), items, patient_id)
                    raw == save_data(DictSet(data, patient_id,
                                             written(Get(data, patient_id), items)))
                IN  IF ~PatientValid(kwargs)
                    THEN Result(raw, UnhandledError)
                    ELSE Result(save_data(DictSet(data, patient_id,
                                                  model_dump(Patient(kwargs)))),
                                Ok(200, [message |-> "Patient updated successfully"]))

\* Variant: the merged dict saved as it is, not dumped again from Patient.
update_patient_stale(f, patient_id, u) ==
    IF ~PatientUpdateValid(u) THEN Result(f, RequestValidationError)
    ELSE
        LET updates == PatientUpdate(u)
            data == load_data(f)
        IN  IF patient_id \notin Keys(data)
            THEN Result(f, HTTPException(404, "Patient not found"))
            ELSE
                LET items == dump_exclude_unset(updates)
                    kwargs == merged(Get(data, patient_id), items, patient_id)
                IN  IF ~PatientValid(kwargs)
                    THEN Result(f, UnhandledError)
                    ELSE Result(save_data(DictSet(data, patient_id,
                                                  written(Get(data, patient_id), items))),
                                Ok(200, [message |-> "Patient updated successfully"]))

update_patient(f, patient_id, u) ==
    IF ~PatientUpdateValid(u) THEN Result(f, RequestValidationError)
    ELSE
        LET updates == PatientUpdate(u)
            data == load_data(f)
        IN  IF patient_id \notin Keys(data)
            THEN Result(f, HTTPException(404, "Patient not found"))
            ELSE
                LET kwargs == merged(Get(data, patient_id),
                                     dump_exclude_unset(updates), patient_id)
                IN  IF ~PatientValid(kwargs)
                    THEN Result(f, UnhandledError)
                    ELSE Result(save_data(DictSet(data, patient_id,
                                                  model_dump(Patient(kwargs)))),
                                Ok(200, [message |-> "Patient updated successfully"]))

\* Variant: the collection is not saved after the deletion.
delete_patient_no_save(f, patient_id) ==
    LET data == load_data(f)
    IN  IF patient_id \notin Keys(data)
        THEN Result(f, HTTPException(404, "Patient not found"))
        ELSE Result(f, Ok(200, [message |-> "Patient deleted successfully"]))

\* Variant: the deletion empties the collection.
delete_patient_clears(f, patient_id) ==
    LET data == load_data(f)
    IN  IF patient_id \notin Keys(data)
        THEN Result(f, HTTPException(404, "Patient not found"))
        ELSE Result(save_data(EmptyDict),
                    Ok(200, [message |-> "Patient deleted successfully"]))

delete_patient(f, patient_id) ==
    LET data == load_data(f)
    IN  IF patient_id \notin Keys(data)
        THEN Result(f, HTTPException(404, "Patient not found"))
        ELSE Result(save_data(DictDel(data, patient_id)),
                    Ok(200, [message |-> "Patient deleted successfully"]))

-----------------------------------------------------------------------------
(* Filter and sort *)

\* list(data.values()): the records in the order of the dict
values(data) == [i \in DOMAIN data |-> data[i][2]]

\* str.lower(), on the city names used
lower(s) ==
    CASE s = "Delhi" -> "delhi"
      [] s = "DELHI" -> "delhi"
      [] s = "Pune" -> "pune"
      [] s = "PUNE" -> "pune"
      [] OTHER -> s

\* "if city:" holds for a string that is given and not empty.
Truthy(o) == o # None /\ Val(o) # ""

\* The query parameters of /patients/filter that FastAPI lets through.
FilterQueryValid(q) ==
    /\ q.gender # None => Val(q.gender) \in Genders
    /\ q.min_age # None => Val(q.min_age) >= 0
    /\ q.max_age # None => Val(q.max_age) <= 120

filter_patients(f, q) ==
    IF ~FilterQueryValid(q) THEN Result(f, RequestValidationError)
    ELSE
        LET data == load_data(f)
            p0 == values(data)
            p1 == IF Truthy(q.city)
                  THEN SelectSeq(p0, LAMBDA p : lower(p["city"]) = lower(Val(q.city)))
                  ELSE p0
            p2 == IF Truthy(q.gender)
                  THEN SelectSeq(p1, LAMBDA p : p["gender"] = Val(q.gender))
                  ELSE p1
            p3 == IF q.min_age # None
                  THEN SelectSeq(p2, LAMBDA p : p["age"] >= Val(q.min_age))
                  ELSE p2
            p4 == IF q.max_age # None
                  THEN SelectSeq(p3, LAMBDA p : p["age"] <= Val(q.max_age))
                  ELSE p3
        IN  Result(f, Ok(200, p4))

\* x.get(sort_by, 0)
sort_key(x, sort_by) == IF sort_by \in DOMAIN x THEN x[sort_by] ELSE 0

reversed(s) == [i \in 1..Len(s) |-> s[Len(s) + 1 - i]]

\* x put into the sorted s behind every element whose key is not greater.
RECURSIVE insert(_, _, _)
insert(x, s, sort_by) ==
    IF s = <<>> THEN <<x>>
    ELSE IF sort_key(Head(s), sort_by) <= sort_key(x, sort_by)
    THEN <<Head(s)>> \o insert(x, Tail(s), sort_by)
    ELSE <<x>> \o s

\* A stable ascending sort: equal keys keep the order they came in.
RECURSIVE stable_sort(_, _)
stable_sort(s, sort_by) ==
    IF s = <<>> THEN <<>>
    ELSE insert(s[Len(s)], stable_sort(SubSeq(s, 1, Len(s) - 1), sort_by), sort_by)

\* Variant: the ascending result turned around.
sorted_turned(s, sort_by, reverse) ==
    IF reverse THEN reversed(stable_sort(s, sort_by)) ELSE stable_sort(s, sort_by)

\* sorted(s, key=..., reverse=...): with reverse the list is reversed, sorted
\* and reversed again, which keeps equal keys in the order they came in.
sorted(s, sort_by, reverse) ==
    IF reverse
    THEN reversed(stable_sort(reversed(s), sort_by))
    ELSE stable_sort(s, sort_by)

SortFields == {"age", "height", "weight", "bmi"}

\* Variant: reverse taken from the wrong order word.
sort_patients_flag_inverted(f, q) ==
    IF q.sort_by = None THEN Result(f, RequestValidationError)
    ELSE
        LET sort_by == Val(q.sort_by)
            order == IF q.order = None THEN "asc" ELSE Val(q.order)
        IN  IF sort_by \notin SortFields
            THEN Result(f, HTTPException(400, "Invalid sort field"))
            ELSE Result(f, Ok(200, sorted(values(load_data(f)), sort_by, order = "asc")))

\* sort_by is required; order defaults to "asc".
sort_patients(f, q) ==
    IF q.sort_by = None THEN Result(f, RequestValidationError)
    ELSE
        LET sort_by == Val(q.sort_by)
            order == IF q.order = None THEN "asc" ELSE Val(q.order)
        IN  IF sort_by \notin SortFields
            THEN Result(f, HTTPException(400, "Invalid sort field"))
            ELSE Result(f, Ok(200, sorted(values(load_data(f)), sort_by, order = "desc")))

home(f) == Result(f, Ok(200, [message |-> "Patient Management System API"]))

about(f) == Result(f, Ok(200, [message |-> "CRUD API built using FastAPI and Pydantic"]))

-----------------------------------------------------------------------------
(* Routes *)

\* The GET routes in the order the decorators add them to the app.
GetRoutes ==
    << [path |-> <<>>, endpoint |-> "home"],
       [path |-> <<"about">>, endpoint |-> "about"],
       [path |-> <<"patients">>, endpoint |-> "get_all_patients"],
       [path |-> <<"patients", "{patient_id}">>, endpoint |-> "get_patient"],
       [path |-> <<"patients", "filter">>, endpoint |-> "filter_patients"],
       [path |-> <<"patients", "sort">>, endpoint |-> "sort_patients"] >>

IsParam(segment) == segment = "{patient_id}"

\* A path parameter matches any segment that is not empty.
Matches(route, path) ==
    /\ Len(route.path) = Len(path)
    /\ \A i \in DOMAIN path :
        IF IsParam(route.path[i]) THEN path[i] # "" ELSE route.path[i] = path[i]

\* The router takes the first route that matches.
dispatch(routes, path) ==
    LET hits == {i \in DOMAIN routes : Matches(routes[i], path)}
    IN  IF hits = {} THEN "none"
        ELSE routes[CHOOSE i \in hits : \A j \in hits : i <= j].endpoint

\* GET url on file f: the endpoint the router picks, run on the url.
http_get(f, url) ==
    LET endpoint == dispatch(GetRoutes, url.path)
    IN  CASE endpoint = "home" -> home(f)
          [] endpoint = "about" -> about(f)
          [] endpoint = "get_all_patients" -> get_all_patients(f)
          [] endpoint = "get_patient" -> get_patient(f, url.path[2])
          [] endpoint = "filter_patients" -> filter_patients(f, url.query)
          [] endpoint = "sort_patients" -> sort_patients(f, url.query)
          [] OTHER -> Result(f, HTTPException(404, "Not Found"))

-----------------------------------------------------------------------------
(* Requests *)

\* Ids in a URL path (a path segment is never empty).
PathIds == {"P001", "P002"}

\* Ids in a request body.
BodyIds == {"P001", "P002", ""}

Body(id, name, city, age, gender, height, weight) ==
    [k \in PatientKeys |->
        CASE k = "id" -> Some(id)
          [] k = "name" -> Some(name)
          [] k = "city" -> Some(city)
          [] k = "age" -> Some(age)
          [] k = "gender" -> Some(gender)
          [] k = "height" -> Some(height)
          [] k = "weight" -> Some(weight)]

BodyA(id) == Body(id, "Asha", "Delhi", 30, "male", 200, 740)
BodyB(id) == Body(id, "Ravi", "Pune", 1, "others", 150, 725)

ValidBodies == {BodyA(id) : id \in BodyIds} \cup {BodyB(id) : id \in BodyIds}

InvalidBodies ==
    UNION {{With(BodyA(id), "age", Some(0)),
            With(BodyA(id), "age", Some(120)),
            With(BodyA(id), "gender", Some("unknown")),
            With(BodyA(id), "height", Some(0)),
            With(BodyA(id), "weight", Some(0 - 740)),
            With(BodyA(id), "name", None),
            Without(BodyA(id), "city")} : id \in BodyIds}

Bodies == ValidBodies \cup InvalidBodies

One(k, v) == [x \in {k} |-> Some(v)]
Null(k) == [x \in {k} |-> None]
Two(k1, v1, k2, v2) == [x \in {k1, k2} |-> IF x = k1 THEN Some(v1) ELSE Some(v2)]

Updates ==
    {[x \in {} |-> None],
     One("name", "Ravi"), Null("name"),
     One("city", "Pune"),
     One("age", 119), One("age", 150), One("age", 0), Null("age"),
     One("gender", "female"), One("gender", "unknown"),
     One("height", 150), One("height", 0),
     One("weight", 725), One("weight", 1000), One("weight", 1200), One("weight", 0),
     Two("height", 150, "weight", 1000),
     Two("weight", 1000, "age", 150)}

-----------------------------------------------------------------------------
(* The state machine *)

NoRequest == [op |-> "none", id |-> "", body |-> <<>>]

\* The workers that can run a handler at the same time.
Workers == {"w1", "w2"}

\* A worker that has no request.
Idle == [at |-> "idle", req |-> NoRequest, data |-> <<>>,
         resp |-> [status |-> 0, body |-> <<>>]]

NoCalls == [w \in Workers |-> Idle]

Init ==
    /\ file = [exists |-> FALSE, content |-> EmptyDict]
    /\ req = NoRequest
    /\ resp = [status |-> 0, body |-> <<>>]
    /\ prev = [op |-> "none", id |-> "", status |-> 0]
    /\ nops = 0
    /\ calls = NoCalls
    /\ log = <<>>

Handle(r, res) ==
    /\ UNCHANGED <<calls, log>>
    /\ nops' = nops + 1
    /\ prev' = [op |-> req.op, id |-> req.id, status |-> resp.status]
    /\ req' = r
    /\ file' = res.file
    /\ resp' = res.resp

GetAll ==
    /\ nops < MaxOps
    /\ Handle([op |-> "get_all", id |-> "", body |-> <<>>], get_all_patients(file))

GetOne ==
    /\ nops < MaxOps
    /\ \E id \in PathIds :
        Handle([op |-> "get", id |-> id, body |-> <<>>], get_patient(file, id))

Create ==
    /\ nops < MaxOps
    /\ \E body \in Bodies :
        Handle([op |-> "create", id |-> Val(body["id"]), body |-> body],
               create_patient(file, body))

Replace ==
    /\ nops < MaxOps
    /\ \E id \in PathIds, body \in Bodies :
        Handle([op |-> "replace", id |-> id, body |-> body],
               replace_patient(file, id, body))

Update ==
    /\ nops < MaxOps
    /\ \E id \in PathIds, u \in Updates :
        Handle([op |-> "update", id |-> id, body |-> u],
               update_patient(file, id, u))

Delete ==
    /\ nops < MaxOps
    /\ \E id \in PathIds :
        Handle([op |-> "delete", id |-> id, body |-> <<>>], delete_patient(file, id))

Next == GetAll \/ GetOne \/ Create \/ Replace \/ Update \/ Delete

Spec == Init /\ [][Next]_vars

-----------------------------------------------------------------------------
(* Queries on a stored collection: one request on a data file that holds   *)
(* some patients                                                           *)

\* Largest number of patients in the data file a query starts from.
MaxPatients == 3

\* Stored patients: each is the dump that create_patient stores for a body.
Stored(id, name, city, age, gender, height, weight) ==
    <<id, model_dump(Patient(Body(id, name, city, age, gender, height, weight)))>>

\* A record in the layout of base attributes only, as a data file written
\* without the computed fields holds it.
BaseOnly(entry) ==
    <<entry[1], [k \in Fields |-> entry[2][k]]>>

Pool ==
    {Stored("P001", "Asha", "Delhi", 30, "male", 200, 740),
     Stored("P002", "Ravi", "delhi", 20, "male", 150, 725),
     Stored("P003", "Meera", "DELHI", 40, "female", 200, 740),
     Stored("P004", "Kiran", "Pune", 30, "male", 200, 1000),
     BaseOnly(Stored("P005", "Zoya", "Pune", 41, "others", 150, 740)),
     Stored("filter", "Filip", "Pune", 19, "male", 200, 1200)}

\* The dicts of at most MaxPatients patients of the pool, in every order.
Collections ==
    {c \in UNION {[1..n -> Pool] : n \in 0..MaxPatients} :
        \A i, j \in DOMAIN c : c[i][1] = c[j][1] => i = j}

FilterQueries ==
    [city : {None, Some("delhi"), Some("Pune"), Some("")},
     gender : {None, Some("male"), Some("unknown")},
     min_age : {None, Some(0), Some(30), Some(0 - 1)},
     max_age : {None, Some(30), Some(121)}]

SortQueries ==
    [sort_by : {None, Some("age"), Some("height"), Some("weight"), Some("bmi"),
                Some("name")},
     order : {None, Some("asc"), Some("desc")}]

NoQuery == [city |-> None, gender |-> None, min_age |-> None, max_age |-> None]

GetUrls ==
    {[path |-> <<>>, query |-> NoQuery],
     [path |-> <<"about">>, query |-> NoQuery],
     [path |-> <<"patients">>, query |-> NoQuery],
     [path |-> <<"patients", "P001">>, query |-> NoQuery],
     [path |-> <<"patients", "P009">>, query |-> NoQuery],
     [path |-> <<"patients", "filter">>, query |-> NoQuery],
     [path |-> <<"patients", "filter">>,
      query |-> [NoQuery EXCEPT !.city = Some("delhi")]],
     [path |-> <<"patients", "sort">>,
      query |-> [sort_by |-> Some("age"), order |-> None]],
     [path |-> <<"patients", "sort">>,
      query |-> [sort_by |-> Some("bmi"), order |-> Some("desc")]],
     [path |-> <<"patients", "P001", "notes">>, query |-> NoQuery]}

InitQuery ==
    /\ file \in {save_data(c) : c \in Collections}
    /\ req = NoRequest
    /\ resp = [status |-> 0, body |-> <<>>]
    /\ prev = [op |-> "none", id |-> "", status |-> 0]
    /\ nops = 0
    /\ calls = NoCalls
    /\ log = <<>>

Answer(r, res) ==
    /\ req' = r
    /\ file' = res.file
    /\ resp' = res.resp
    /\ UNCHANGED <<prev, nops, calls, log>>

\* A GET request, routed by the app.
HttpGet ==
    /\ req = NoRequest
    /\ \E url \in GetUrls :
        Answer([op |-> "GET", id |-> dispatch(GetRoutes, url.path), body |-> url],
               http_get(file, url))

\* filter_patients called with the query parameters q.
Filter ==
    /\ req = NoRequest
    /\ \E q \in FilterQueries :
        Answer([op |-> "filter", id |-> "", body |-> q], filter_patients(file, q))

\* sort_patients called with the query parameters q.
Sort ==
    /\ req = NoRequest
    /\ \E q \in SortQueries :
        Answer([op |-> "sort", id |-> "", body |-> q], sort_patients(file, q))

NextQuery == HttpGet \/ Filter \/ Sort

SpecQuery == InitQuery /\ [][NextQuery]_vars

-----------------------------------------------------------------------------
(* The computed fields of one patient                                       *)

\* Largest bmi classified, in hundredths.
MaxBmi == 3200

Heights == {150, 200}

Weights == {416, 562, 675, 725, 740, 1000, 1200}

InitVerdict ==
    /\ file = [exists |-> FALSE, content |-> EmptyDict]
    /\ req = NoRequest
    /\ resp = [status |-> 0, body |-> <<>>]
    /\ prev = [op |-> "none", id |-> "", status |-> 0]
    /\ nops = 0
    /\ calls = NoCalls
    /\ log = <<>>

\* Patient.verdict on a bmi b.
Classify ==
    /\ req = NoRequest
    /\ \E b \in 0..MaxBmi :
        Answer([op |-> "verdict", id |-> "", body |-> [bmi |-> b]],
               Result(file, Ok(200, [bmi |-> b, verdict |-> verdict(b)])))

\* Patient.bmi and Patient.verdict of a patient of height h and weight w.
Measure ==
    /\ req = NoRequest
    /\ \E h \in Heights, w \in Weights :
        Answer([op |-> "measure", id |-> "", body |-> [height |-> h, weight |-> w]],
               Result(file, Ok(200, [bmi |-> bmi(h, w), verdict |-> verdict(bmi(h, w))])))

NextVerdict == Classify \/ Measure

SpecVerdict == InitVerdict /\ [][NextVerdict]_vars

-----------------------------------------------------------------------------
(* Requests handled at the same time.  The handlers are plain functions,    *)
(* which the server runs on worker threads; nothing orders the load_data of *)
(* one with the save_data of another.  A handler is two steps here: its     *)
(* load_data, and the rest of its body up to the response, save_data        *)
(* included.  Each worker handles one request.                              *)

CallBodies ==
    {BodyA("P001"), BodyB("P001"), BodyB("P002"),
     With(BodyA("P001"), "age", Some(0))}

CallRequests ==
    {[op |-> "get_all", id |-> "", body |-> <<>>]}
    \cup {[op |-> "get", id |-> id, body |-> <<>>] : id \in PathIds}
    \cup {[op |-> "filter", id |-> "", body |-> q] :
            q \in {[city |-> Some("delhi"), gender |-> None,
                    min_age |-> None, max_age |-> None]}}
    \cup {[op |-> "sort", id |-> "", body |-> q] :
            q \in {[sort_by |-> Some("age"), order |-> None],
                   [sort_by |-> Some("name"), order |-> None]}}
    \cup {[op |-> "create", id |-> Val(b["id"]), body |-> b] : b \in CallBodies}
    \cup {[op |-> "replace", id |-> "P001", body |-> b] : b \in CallBodies}
    \cup {[op |-> "update", id |-> id, body |-> u] :
            id \in PathIds,
            u \in {One("weight", 1000), One("city", "Pune"), One("age", 150)}}
    \cup {[op |-> "delete", id |-> id, body |-> <<>>] : id \in PathIds}

\* The handler of request r, run on the data file f.
run(f, r) ==
    CASE r.op = "get_all" -> get_all_patients(f)
      [] r.op = "get" -> get_patient(f, r.id)
      [] r.op = "filter" -> filter_patients(f, r.body)
      [] r.op = "sort" -> sort_patients(f, r.body)
      [] r.op = "create" -> create_patient(f, r.body)
      [] r.op = "replace" -> replace_patient(f, r.id, r.body)
      [] r.op = "update" -> update_patient(f, r.id, r.body)
      [] r.op = "delete" -> delete_patient(f, r.id)

\* The request is answered before load_data is called: its body or query is
\* rejected by the validation, or sort_by is no sort field.
answered_before_load(r) ==
    CASE r.op \in {"create", "replace"} -> ~PatientValid(r.body)
      [] r.op = "update" -> ~PatientUpdateValid(r.body)
      [] r.op = "filter" -> ~FilterQueryValid(r.body)
      [] r.op = "sort" -> r.body.sort_by = None \/ Val(r.body.sort_by) \notin SortFields
      [] OTHER -> FALSE

\* Variant: every handler writes its dict back before it answers.
saves_every_call(r, response) == TRUE

\* save_data is called on the way to the success response of create_patient,
\* replace_patient, update_patient and delete_patient, and nowhere else.
saves(r, response) ==
    /\ r.op \in {"create", "replace", "update", "delete"}
    /\ response.status \in {200, 201}

\* Variant: the handler reads the file again when it comes to its change.
finish_on_current(data, current, r) ==
    LET res == run(current, r)
    IN  [file |-> IF saves(r, res.resp) THEN res.file ELSE current,
         resp |-> res.resp,
         saved |-> saves(r, res.resp)]

\* Variant: save_data writes only the entry of the request's id into the
\* file as it is then.
finish_entry_only(data, current, r) ==
    LET res == run(data, r)
        new == load_data(res.file)
        now == load_data(current)
    IN  [file |-> IF ~saves(r, res.resp) THEN current
                  ELSE IF r.id \in Keys(new)
                       THEN save_data(DictSet(now, r.id, Get(new, r.id)))
                       ELSE save_data(DictDel(now, r.id)),
         resp |-> res.resp,
         saved |-> saves(r, res.resp)]

\* The rest of the handler of r after data = load_data(): the checks and the
\* change on data and, where it gets there, save_data(data), which replaces
\* the whole file, whatever it holds by then.
finish(data, current, r) ==
    LET res == run(data, r)
    IN  [file |-> IF saves(r, res.resp) THEN res.file ELSE current,
         resp |-> res.resp,
         saved |-> saves(r, res.resp)]

InitCalls ==
    /\ file \in {[exists |-> FALSE, content |-> EmptyDict],
                 save_data(<<Stored("P001", "Asha", "Delhi", 30, "male", 200, 740)>>),
                 save_data(<<Stored("P001", "Asha", "Delhi", 30, "male", 200, 740),
                             Stored("P002", "Ravi", "delhi", 20, "male", 150, 725)>>)}
    /\ req = NoRequest
    /\ resp = [status |-> 0, body |-> <<>>]
    /\ prev = [op |-> "none", id |-> "", status |-> 0]
    /\ nops = 0
    /\ calls = NoCalls
    /\ log = <<>>

\* A request that is answered without a call of load_data.
Reject ==
    \E w \in Workers, r \in CallRequests :
        /\ calls[w].at = "idle"
        /\ answered_before_load(r)
        /\ calls' = [calls EXCEPT ![w] = [at |-> "done", req |-> r, data |-> <<>>,
                                          resp |-> run(file, r).resp]]
        /\ UNCHANGED <<file, req, resp, prev, nops, log>>

\* data = load_data()
Load ==
    \E w \in Workers, r \in CallRequests :
        /\ calls[w].at = "idle"
        /\ ~answered_before_load(r)
        /\ calls' = [calls EXCEPT ![w] = [at |-> "loaded", req |-> r, data |-> file,
                                          resp |-> [status |-> 0, body |-> <<>>]]]
        /\ log' = Append(log, <<w, "load">>)
        /\ UNCHANGED <<file, req, resp, prev, nops>>

\* The rest of the handler.
Finish ==
    \E w \in Workers :
        /\ calls[w].at = "loaded"
        /\ LET end == finish(calls[w].data, file, calls[w].req)
           IN  /\ calls' = [calls EXCEPT ![w].at = "done", ![w].resp = end.resp]
               /\ file' = end.file
               /\ log' = IF end.saved THEN Append(log, <<w, "save">>) ELSE log
        /\ UNCHANGED <<req, resp, prev, nops>>

NextCalls == Reject \/ Load \/ Finish

SpecCalls == InitCalls /\ [][NextCalls]_vars

-----------------------------------------------------------------------------
(* The record constraints as the specification states them *)

DerivedKeys == {"bmi", "verdict"}

Success == {200, 201}

\* v maps every base field to an option: no field is null, age is within
\* 1..119, gender is one of the three values, height and weight are positive.
RecordOk(v) ==
    /\ \A k \in Fields : v[k] # None
    /\ Val(v["age"]) \in 1..119
    /\ Val(v["gender"]) \in {"male", "female", "others"}
    /\ Val(v["height"]) > 0
    /\ Val(v["weight"]) > 0

\* The stored record with the fields of the partial payload u laid over it.
Combined(stored, u) ==
    [k \in Fields |-> IF k \in DOMAIN u THEN u[k] ELSE Some(stored[k])]

\* A request body that is a valid record.
BodyOk(b) ==
    /\ PatientKeys \subseteq DOMAIN b
    /\ b["id"] # None
    /\ RecordOk([k \in Fields |-> b[k]])

\* b is weight / height^2 to the nearest hundredth (a tie may go either way).
BmiOk(height, weight, b) ==
    LET num == weight * 100000
        den == height * height
    IN  /\ 2 * (num - b * den) <= den
        /\ 2 * (b * den - num) <= den

Category(b) ==
    CASE b < 1850 -> "Underweight"
      [] b >= 1850 /\ b < 2500 -> "Normal"
      [] b >= 2500 /\ b < 3000 -> "Overweight"
      [] b >= 3000 -> "Obese"

DerivedOk(rec) ==
    /\ BmiOk(rec["height"], rec["weight"], rec["bmi"])
    /\ rec["verdict"] = Category(rec["bmi"])

-----------------------------------------------------------------------------
(* C1 *)

C1_Step ==
    LET before == load_data(file)
    IN  (/\ req'.op = "update"
         /\ req'.id \in Keys(before)
         /\ ~RecordOk(Combined(Get(before, req'.id), req'.body)))
        => (resp'.status \notin Success /\ file' = file)

\* C1: an update of a stored record whose merge with the partial payload is
\* an invalid record fails, and the data file is exactly what it was.
C1_UpdateAtomic == [][C1_Step]_vars

\* An update {weight, age: 150} of a stored record has failed past the
\* payload's own checks, and the weight it carried was not written.
C1_Witness ==
    /\ req.op = "update"
    /\ resp.status = 500
    /\ DOMAIN req.body = {"weight", "age"}
    /\ Val(req.body["age"]) = 150
    /\ req.id \in Keys(load_data(file))
    /\ Get(load_data(file), req.id)["weight"] # Val(req.body["weight"])

-----------------------------------------------------------------------------
(* C2 *)

C2_Step ==
    (req'.op = "update" /\ resp'.status = 200) =>
        LET before == load_data(file)
            after == load_data(file')
            id == req'.id
            u == req'.body
        IN  /\ id \in Keys(before)
            /\ KeyList(after) = KeyList(before)
            /\ \A j \in Keys(before) \ {id} : Get(after, j) = Get(before, j)
            /\ DOMAIN Get(after, id) = Fields \cup DerivedKeys
            /\ \A k \in Fields :
                IF k \in DOMAIN u
                THEN Some(Get(after, id)[k]) = u[k]
                ELSE Get(after, id)[k] = Get(before, id)[k]

\* C2: after a successful update every base field absent from the payload
\* has its stored value of before, every field present has the supplied
\* value, and nothing else of the collection but bmi and verdict of the
\* target differs.
C2_UpdatePreservesFields == [][C2_Step]_vars

\* An update {weight: 100.0} succeeded on a record created as Asha's.
C2_Witness ==
    /\ req.op = "update"
    /\ resp.status = 200
    /\ DOMAIN req.body = {"weight"}
    /\ Get(load_data(file), req.id)["weight"] = 1000
    /\ Get(load_data(file), req.id)["name"] = "Asha"
    /\ Get(load_data(file), req.id)["verdict"] = "Overweight"

-----------------------------------------------------------------------------
(* C3 *)

C3_Step ==
    (/\ req'.op = "create"
     /\ BodyOk(req'.body)
     /\ Val(req'.body["id"]) \in Keys(load_data(file)))
    => (/\ resp'.status = 400
        /\ resp'.body = [detail |-> "Patient already exists"]
        /\ file' = file)

\* C3: create of a record whose id is in the collection answers 400
\* "Patient already exists" and leaves the data file as it was.
C3_CreateConflict == [][C3_Step]_vars

\* A create was refused for an id whose stored record differs from the body.
C3_Witness ==
    /\ req.op = "create"
    /\ resp.status = 400
    /\ req.id \in Keys(load_data(file))
    /\ Get(load_data(file), req.id)["name"] # Val(req.body["name"])

-----------------------------------------------------------------------------
(* C4 *)

C4_Step ==
    (/\ req'.op = "replace"
     /\ BodyOk(req'.body)
     /\ Val(req'.body["id"]) # req'.id)
    => (/\ resp'.status = 400
        /\ resp'.body = [detail |-> "Patient ID mismatch"]
        /\ file' = file)

\* C4: replace with a record whose id differs from the path id answers 400
\* "Patient ID mismatch" whether or not either id is in the collection, and
\* leaves the data file as it was.
C4_ReplaceIdMismatch == [][C4_Step]_vars

\* The mismatch was reported for a path id that is not in the collection,
\* with a body id that is.
C4_Witness ==
    /\ req.op = "replace"
    /\ resp = [status |-> 400, body |-> [detail |-> "Patient ID mismatch"]]
    /\ req.id \notin Keys(load_data(file))
    /\ Val(req.body["id"]) \in Keys(load_data(file))

-----------------------------------------------------------------------------
(* C5 *)

C5_Step ==
    LET before == load_data(file)
        after == load_data(file')
    IN  /\ (req'.op = "delete" /\ req'.id \notin Keys(before))
            => (resp'.status = 404 /\ file' = file)
        /\ (req'.op = "delete" /\ resp'.status = 200)
            => (req'.id \in Keys(before) /\ req'.id \notin Keys(after))
        /\ \A x \in Keys(after) \ Keys(before) :
            req'.op = "create" /\ req'.id = x /\ resp'.status = 201
        /\ (req'.op = "get" /\ req'.id \notin Keys(before))
            => resp'.status = 404

\* C5: a successful delete removes the id; an id that is absent stays absent
\* until a create of it succeeds; get of an absent id answers 404; delete of
\* an absent id answers 404 and leaves the data file as it was.
C5_DeleteThenGet == [][C5_Step]_vars

\* A get of the id that the request before it deleted answered 404.
C5_Witness ==
    /\ prev.op = "delete"
    /\ prev.status = 200
    /\ req.op = "get"
    /\ req.id = prev.id
    /\ resp.status = 404

-----------------------------------------------------------------------------
(* C6 *)

\* A get of the id that the request before it created: the answer is 200 and
\* carries the base fields of the created record and their bmi and verdict.
C6_RoundTrip(got, r) ==
    /\ resp'.status = 200
    /\ Fields \cup DerivedKeys \subseteq DOMAIN got
    /\ \A k \in Fields : got[k] = Val(r[k])
    /\ DerivedOk(got)

C6_IsCreateThenGet ==
    /\ req.op = "create"
    /\ resp.status = 201
    /\ req'.op = "get"
    /\ req'.id = req.id

C6_OriginalStep ==
    C6_IsCreateThenGet =>
        /\ C6_RoundTrip(resp'.body, req.body)
        /\ DerivedKeys \cap DOMAIN Get(load_data(file), req.id) = {}

C6_AmendedStep ==
    C6_IsCreateThenGet =>
        /\ C6_RoundTrip(resp'.body, req.body)
        /\ resp'.body = Get(load_data(file), req.id)
        /\ DerivedKeys \subseteq DOMAIN Get(load_data(file), req.id)

-----------------------------------------------------------------------------
(* C7 *)

\* C7: every record that get or get_all returns has bmi equal to
\* weight / height^2 rounded to two decimals and the verdict of that bmi.
C7_DerivedConsistent ==
    /\ (req.op = "get" /\ resp.status = 200) => DerivedOk(resp.body)
    /\ req.op = "get_all" =>
        \A i \in DOMAIN resp.body : DerivedOk(resp.body[i][2])

\* A get after a successful update returned a record whose weight is the
\* updated one, with the verdict of the new bmi.
C7_Witness ==
    /\ prev.op = "update"
    /\ prev.status = 200
    /\ req.op = "get"
    /\ req.id = prev.id
    /\ resp.status = 200
    /\ resp.body["weight"] = 1200
    /\ resp.body["height"] = 200
    /\ resp.body["verdict"] = "Obese"

-----------------------------------------------------------------------------
(* C8 *)

\* C8: every record in the data file has age in 1..119, height > 0,
\* weight > 0 and gender one of male, female, others.
C8_StoredValid ==
    LET data == load_data(file)
    IN  \A i \in DOMAIN data :
            LET rec == data[i][2]
            IN  /\ rec["age"] \in 1..119
                /\ rec["height"] > 0
                /\ rec["weight"] > 0
                /\ rec["gender"] \in {"male", "female", "others"}

\* An update {age: 150}, which the payload's own check lets through, was
\* handled for a stored record.
C8_Witness ==
    /\ req.op = "update"
    /\ req.body = One("age", 150)
    /\ req.id \in Keys(load_data(file))
    /\ Get(load_data(file), req.id)["age"] < 120

-----------------------------------------------------------------------------
(* C9 *)

\* C9: every id in the collection is non-empty and occurs once, and a create
\* whose id is the empty string is rejected.
C9_IdNonEmptyUnique ==
    LET data == load_data(file)
    IN  /\ \A i \in DOMAIN data : data[i][1] # ""
        /\ \A i, j \in DOMAIN data : data[i][1] = data[j][1] => i = j
        /\ (req.op = "create" /\ req.id = "") => resp.status \notin Success

-----------------------------------------------------------------------------
(* C10 *)

\* C10: the outcome of an update is Updated (200), NotFound (404) or a
\* ValidationError (422 or 400).
C10_UpdateOutcomeTyped ==
    req.op = "update" => resp.status \in {200, 404, 422, 400}

-----------------------------------------------------------------------------
(* C11 *)

\* C11: a GET of /patients/filter is handled by filter_patients and a GET of
\* /patients/sort by sort_patients, neither by get_patient, and each answers
\* 200.
C11_RouteDispatch ==
    /\ (req.op = "GET" /\ req.body.path = <<"patients", "filter">>)
        => (req.id = "filter_patients" /\ resp.status = 200)
    /\ (req.op = "GET" /\ req.body.path = <<"patients", "sort">>)
        => (req.id = "sort_patients" /\ resp.status = 200)

-----------------------------------------------------------------------------
(* C12 *)

CaseClasses == {{"Delhi", "delhi", "DELHI"}, {"Pune", "pune", "PUNE"}}

SameIgnoringCase(a, b) == a = b \/ \E c \in CaseClasses : a \in c /\ b \in c

\* The query parameters the interface admits.
C12_QueryOk(q) ==
    /\ q.gender # None => Val(q.gender) \in {"male", "female", "others"}
    /\ q.min_age # None => Val(q.min_age) >= 0
    /\ q.max_age # None => Val(q.max_age) <= 120

\* The records of data, in its order, that meet every predicate of q; the
\* city predicate counts when cityGiven.
C12_Expected(data, q, cityGiven) ==
    SelectSeq([i \in DOMAIN data |-> data[i][2]],
              LAMBDA p :
                  /\ cityGiven => SameIgnoringCase(p["city"], Val(q.city))
                  /\ q.gender # None => p["gender"] = Val(q.gender)
                  /\ q.min_age # None => p["age"] >= Val(q.min_age)
                  /\ q.max_age # None => p["age"] <= Val(q.max_age))

\* C12 as stated: filter returns, in collection order, exactly the records
\* that meet all the predicates supplied, a city being supplied whenever it
\* is given.
C12_FilterAllSupplied ==
    (req.op = "filter" /\ C12_QueryOk(req.body)) =>
        /\ resp.status = 200
        /\ resp.body = C12_Expected(load_data(file), req.body, req.body.city # None)

\* What filter_patients does: it returns, in collection order, exactly the
\* records that meet all the predicates supplied, where a city given as the
\* empty string counts as not supplied (and a min_age of 0 as supplied).
C12_FilterComposition ==
    (req.op = "filter" /\ C12_QueryOk(req.body)) =>
        /\ resp.status = 200
        /\ resp.body = C12_Expected(load_data(file), req.body,
                                    req.body.city # None /\ Val(req.body.city) # "")

-----------------------------------------------------------------------------
(* C13 *)

KeyOf(x, field) == IF field \in DOMAIN x THEN x[field] ELSE 0

Occurrences(s, x) == Cardinality({i \in DOMAIN s : s[i] = x})

IsPermutation(s, t) ==
    /\ Len(s) = Len(t)
    /\ \A i \in DOMAIN s : Occurrences(s, s[i]) = Occurrences(t, s[i])

\* C13: for sort_by among age, height, weight, bmi the answer is a
\* permutation of the collection with keys (0 for a missing field) that do
\* not decrease for asc and the default, and do not increase for desc; for
\* another sort_by the answer is 400 "Invalid sort field".
C13_SortOrdering ==
    (req.op = "sort" /\ req.body.sort_by # None) =>
        LET field == Val(req.body.sort_by)
            out == resp.body
            all == [i \in DOMAIN load_data(file) |-> load_data(file)[i][2]]
        IN  IF field \in {"age", "height", "weight", "bmi"}
            THEN /\ resp.status = 200
                 /\ IsPermutation(out, all)
                 /\ req.body.order \in {None, Some("asc")} =>
                        \A i \in 1..(Len(out) - 1) :
                            KeyOf(out[i], field) <= KeyOf(out[i + 1], field)
                 /\ req.body.order = Some("desc") =>
                        \A i \in 1..(Len(out) - 1) :
                            KeyOf(out[i], field) >= KeyOf(out[i + 1], field)
            ELSE resp = [status |-> 400, body |-> [detail |-> "Invalid sort field"]]

\* A descending sort by bmi moved the record without a bmi, which is not
\* last in the file, to the end.
C13_Witness ==
    /\ req.op = "sort"
    /\ req.body = [sort_by |-> Some("bmi"), order |-> Some("desc")]
    /\ resp.status = 200
    /\ Len(resp.body) = 3
    /\ "bmi" \notin DOMAIN resp.body[3]
    /\ "bmi" \notin DOMAIN load_data(file)[1][2]

-----------------------------------------------------------------------------
(* C14 *)

\* C14: in either order, the records of the answer that share a sort key are
\* in the order they have in the collection.
C14_SortStable ==
    (req.op = "sort" /\ resp.status = 200) =>
        LET field == Val(req.body.sort_by)
            out == resp.body
            all == [i \in DOMAIN load_data(file) |-> load_data(file)[i][2]]
        IN  \A n \in DOMAIN all :
                SelectSeq(out, LAMBDA x : KeyOf(x, field) = KeyOf(all[n], field))
                = SelectSeq(all, LAMBDA x : KeyOf(x, field) = KeyOf(all[n], field))

\* A descending sort by age put a greater key first and kept two records of
\* the same age, Asha before Kiran, as the file has them.
C14_Witness ==
    /\ req.op = "sort"
    /\ req.body = [sort_by |-> Some("age"), order |-> Some("desc")]
    /\ resp.status = 200
    /\ Len(resp.body) = 3
    /\ resp.body[1]["age"] > resp.body[2]["age"]
    /\ resp.body[2]["name"] = "Asha"
    /\ resp.body[3]["name"] = "Kiran"
    /\ load_data(file)[3][1] # "P004"

-----------------------------------------------------------------------------
(* C15 *)

\* C15: for every bmi (in hundredths) the verdict is Underweight iff
\* bmi < 18.5, Normal iff 18.5 <= bmi < 25, Overweight iff 25 <= bmi < 30 and
\* Obese iff bmi >= 30, so exactly one of the four; 18.5 is Normal, 25 is
\* Overweight and 30 is Obese.
C15_VerdictClassification ==
    req.op \in {"verdict", "measure"} =>
        LET b == resp.body.bmi
            v == resp.body.verdict
        IN  /\ v \in {"Underweight", "Normal", "Overweight", "Obese"}
            /\ v = "Underweight" <=> b < 1850
            /\ v = "Normal" <=> (1850 <= b /\ b < 2500)
            /\ v = "Overweight" <=> (2500 <= b /\ b < 3000)
            /\ v = "Obese" <=> b >= 3000
            /\ b = 1850 => v = "Normal"
            /\ b = 2500 => v = "Overweight"
            /\ b = 3000 => v = "Obese"

\* A patient of 1.5 m and 67.5 kg has a bmi of exactly 30 and is Obese.
C15_Witness ==
    /\ req.op = "measure"
    /\ req.body = [height |-> 150, weight |-> 675]
    /\ resp.body = [bmi |-> 3000, verdict |-> "Obese"]

-----------------------------------------------------------------------------
(* C16 *)

Mutating == {"create", "replace", "update", "delete"}

\* The records stored under k: none or one.
Entry(data, k) == {data[i][2] : i \in {j \in DOMAIN data : data[j][1] = k}}

\* Worker w has answered a mutating request with success.
Succeeded(w) ==
    /\ calls[w].at = "done"
    /\ calls[w].req.op \in Mutating
    /\ calls[w].resp.status \in Success

\* Both workers called load_data before either called save_data, then first
\* saved and later saved.
LoadedThenSaved(first, later) ==
    /\ first # later
    /\ Len(log) = 4
    /\ log[1][2] = "load"
    /\ log[2][2] = "load"
    /\ log[3] = <<first, "save">>
    /\ log[4] = <<later, "save">>

\* C16: when two successful mutating requests both load before either saves,
\* the file ends as the collection both loaded with the change of the later
\* saver only: every entry but the one of the later saver's id is as loaded,
\* so the change of the first saver is gone.
C16_LastWriteWins ==
    \A first, later \in Workers :
        (LoadedThenSaved(first, later) /\ Succeeded(first) /\ Succeeded(later)) =>
            LET loaded == load_data(calls[first].data)
                stored == load_data(file)
            IN  /\ calls[later].data = calls[first].data
                /\ \A k \in (Keys(loaded) \cup Keys(stored)
                             \cup {calls[first].req.id}) \ {calls[later].req.id} :
                        Entry(stored, k) = Entry(loaded, k)

\* Two creates of different ids were both answered 201 and only the record
\* of the later saver is stored.
C16_Witness ==
    \E first, later \in Workers :
        /\ LoadedThenSaved(first, later)
        /\ calls[first].req.op = "create"
        /\ calls[later].req.op = "create"
        /\ calls[first].req.id # calls[later].req.id
        /\ calls[first].resp.status = 201
        /\ calls[later].resp.status = 201
        /\ Keys(load_data(file)) = {calls[later].req.id}

-----------------------------------------------------------------------------
(* C17 *)

\* The last two calls on the file are worker w's load_data and save_data:
\* no other request came between them.
RanAlone(w) ==
    /\ Len(log) >= 2
    /\ log[Len(log) - 1] = <<w, "load">>
    /\ log[Len(log)] = <<w, "save">>

\* C17: a successful mutating request on id X that runs with no other
\* between its load and its save makes exactly one load and then one save,
\* and changes only the entry of X: create adds the key X, delete removes
\* it, replace and update keep the keys, and every other record is as it
\* was.
C17_SingleTargetFrame ==
    \A w \in Workers :
        (Succeeded(w) /\ RanAlone(w)) =>
            LET old == load_data(calls[w].data)
                new == load_data(file)
                X == calls[w].req.id
                op == calls[w].req.op
            IN  /\ Cardinality({i \in DOMAIN log : log[i] = <<w, "load">>}) = 1
                /\ Cardinality({i \in DOMAIN log : log[i] = <<w, "save">>}) = 1
                /\ op = "create" => (X \notin Keys(old) /\ Keys(new) = Keys(old) \cup {X})
                /\ op = "delete" => (X \in Keys(old) /\ Keys(new) = Keys(old) \ {X})
                /\ op \in {"replace", "update"} => (X \in Keys(old) /\ KeyList(new) = KeyList(old))
                /\ Len(new) = Cardinality(Keys(new))
                /\ \A k \in (Keys(old) \cup Keys(new)) \ {X} : Entry(new, k) = Entry(old, k)

\* A delete of P001 ran alone on a collection of two patients and left the
\* other.
C17_Witness ==
    \E w \in Workers :
        /\ Succeeded(w)
        /\ RanAlone(w)
        /\ calls[w].req.op = "delete"
        /\ calls[w].req.id = "P001"
        /\ Keys(load_data(calls[w].data)) = {"P001", "P002"}
        /\ Keys(load_data(file)) = {"P002"}

-----------------------------------------------------------------------------
(* C18 *)

\* Worker w ends its request in this step, and the request is a read or ends
\* in an error.
EndsWithoutChange(w) ==
    /\ calls[w].at # "done"
    /\ calls'[w].at = "done"
    /\ \/ calls'[w].req.op \notin Mutating
       \/ calls'[w].resp.status \notin Success

C18_Step ==
    /\ \A w \in Workers :
        EndsWithoutChange(w) =>
            /\ file' = file
            /\ log' = log
            /\ \A i \in DOMAIN log' : log'[i] # <<w, "save">>
            /\ calls[w].at = "loaded" =>
                   run(calls[w].data, calls'[w].req).file = calls[w].data
    /\ (file' # file \/ (Len(log') > Len(log) /\ log'[Len(log')][2] = "save")) =>
            \E w \in Workers :
                /\ calls[w].at = "loaded"
                /\ calls'[w].at = "done"
                /\ calls'[w].req.op \in Mutating
                /\ calls'[w].resp.status \in Success

\* C18: a request that is a read (getAll, getOne, filter, sort) or that ends
\* in an error does not call save_data and leaves the file as it is; the
\* file changes, and save_data is called, only where a mutating request
\* ends in success.
C18_OnlySuccessSaves == [][C18_Step]_vars

\* A delete was answered 404 and a read 200 after the file had been changed
\* under them by the other worker, and neither has saved.
C18_Witness ==
    \E w \in Workers :
        /\ calls[w].at = "done"
        /\ calls[w].req.op \in {"delete", "get_all"}
        /\ calls[w].resp.status \in {404, 200}
        /\ calls[w].req.op = "delete" => calls[w].resp.status = 404
        /\ calls[w].data # <<>>
        /\ calls[w].data # file
        /\ \A i \in DOMAIN log : log[i] # <<w, "save">>

-----------------------------------------------------------------------------
(* C19 *)

\* C19: when two creates of the same id, which the collection does not hold,
\* both load before either saves, both are answered 201, both save, and the
\* record stored is that of the later save.
C19_ConcurrentCreate ==
    \A w, v \in Workers :
        (/\ w # v
         /\ calls[w].at = "done"
         /\ calls[v].at = "done"
         /\ calls[w].req.op = "create"
         /\ calls[v].req.op = "create"
         /\ calls[w].req.id = calls[v].req.id
         /\ BodyOk(calls[w].req.body)
         /\ BodyOk(calls[v].req.body)
         /\ Len(log) >= 2
         /\ log[1][2] = "load"
         /\ log[2][2] = "load"
         /\ calls[w].req.id \notin Keys(load_data(calls[w].data))) =>
            /\ calls[w].resp.status = 201
            /\ calls[v].resp.status = 201
            /\ Len(log) = 4
            /\ log[3][2] = "save"
            /\ log[4][2] = "save"
            /\ log[3][1] # log[4][1]
            /\ LET body == calls[log[4][1]].req.body
                   stored == Entry(load_data(file), calls[w].req.id)
               IN  /\ Cardinality(stored) = 1
                   /\ \A rec \in stored : \A k \in Fields : rec[k] = Val(body[k])

\* Asha and Ravi were both created as P001 with 201; Asha was saved first
\* and the record stored is Ravi's.
C19_Witness ==
    /\ Len(log) = 4
    /\ log[1][2] = "load"
    /\ log[2][2] = "load"
    /\ log[3][2] = "save"
    /\ log[4][2] = "save"
    /\ calls[log[3][1]].req = [op |-> "create", id |-> "P001", body |-> BodyA("P001")]
    /\ calls[log[4][1]].req = [op |-> "create", id |-> "P001", body |-> BodyB("P001")]
    /\ calls[log[3][1]].resp.status = 201
    /\ calls[log[4][1]].resp.status = 201
    /\ Entry(load_data(file), "P001") # {}
    /\ \A rec \in Entry(load_data(file), "P001") : rec["name"] = "Ravi"

-----------------------------------------------------------------------------
(* C20 *)

\* The map from id to record (its base fields) that the file f stands for.
AbsMap(f) ==
    LET data == load_data(f)
    IN  [k \in Keys(data) |->
            [x \in Fields |-> data[CHOOSE i \in DOMAIN data : data[i][1] = k][2][x]]]

Put(m, k, v) == [x \in DOMAIN m \cup {k} |-> IF x = k THEN v ELSE m[x]]

Remove(m, k) == [x \in DOMAIN m \ {k} |-> m[x]]

\* A partial payload each of whose given values is admissible by itself.
PayloadOk(u) ==
    /\ ("age" \in DOMAIN u /\ u["age"] # None) => Val(u["age"]) > 0
    /\ ("gender" \in DOMAIN u /\ u["gender"] # None) =>
            Val(u["gender"]) \in {"male", "female", "others"}
    /\ ("height" \in DOMAIN u /\ u["height"] # None) => Val(u["height"]) > 0
    /\ ("weight" \in DOMAIN u /\ u["weight"] # None) => Val(u["weight"]) > 0

Outcome(map, outcome) == [map |-> map, outcome |-> outcome]

\* The operation r applied to the map m in one step.
AbsApply(m, r) ==
    CASE r.op = "get" ->
            IF r.id \in DOMAIN m THEN Outcome(m, "ok") ELSE Outcome(m, "not_found")
      [] r.op = "create" ->
            IF ~BodyOk(r.body) THEN Outcome(m, "invalid")
            ELSE IF Val(r.body["id"]) \in DOMAIN m THEN Outcome(m, "conflict")
            ELSE Outcome(Put(m, Val(r.body["id"]), [x \in Fields |-> Val(r.body[x])]), "ok")
      [] r.op = "replace" ->
            IF ~BodyOk(r.body) THEN Outcome(m, "invalid")
            ELSE IF Val(r.body["id"]) # r.id THEN Outcome(m, "mismatch")
            ELSE IF r.id \notin DOMAIN m THEN Outcome(m, "not_found")
            ELSE Outcome(Put(m, r.id, [x \in Fields |-> Val(r.body[x])]), "ok")
      [] r.op = "update" ->
            IF ~PayloadOk(r.body) THEN Outcome(m, "invalid")
            ELSE IF r.id \notin DOMAIN m THEN Outcome(m, "not_found")
            ELSE IF ~RecordOk(Combined(m[r.id], r.body)) THEN Outcome(m, "invalid")
            ELSE Outcome(Put(m, r.id, [x \in Fields |-> Val(Combined(m[r.id], r.body)[x])]),
                         "ok")
      [] r.op = "delete" ->
            IF r.id \in DOMAIN m THEN Outcome(Remove(m, r.id), "ok")
            ELSE Outcome(m, "not_found")

\* The outcome that a response to the request r stands for.
OutcomeOf(r, response) ==
    CASE response.status \in Success -> "ok"
      [] response.status = 404 -> "not_found"
      [] response.status = 400 /\ r.op = "create" -> "conflict"
      [] response.status = 400 /\ r.op = "replace" -> "mismatch"
      [] OTHER -> "invalid"

C20_Step ==
    req'.op \in {"get", "create", "replace", "update", "delete"} =>
        LET abs == AbsApply(AbsMap(file), req')
        IN  /\ OutcomeOf(req', resp') = abs.outcome
            /\ AbsMap(file') = abs.map
            /\ Len(load_data(file')) = Cardinality(Keys(load_data(file')))
            /\ (req'.op = "get" /\ abs.outcome = "ok") =>
                    [x \in Fields |-> resp'.body[x]] = abs.map[req'.id]

\* C20: with the requests handled one after the other, every create,
\* replace, update, delete and getOne has the outcome, and leaves the
\* collection, that the same operation has on a map from id to record: the
\* file stands for the map at every step of every sequence of them.
C20_SerialEquivalence == [][C20_Step]_vars

\* A create, then an update of its weight, then a getOne that returns the
\* record with the new weight.
C20_Witness ==
    /\ nops = 3
    /\ req.op = "get"
    /\ resp.status = 200
    /\ prev.op = "update"
    /\ prev.status = 200
    /\ prev.id = req.id
    /\ resp.body["weight"] = 1000

====
